---- MODULE Spec2Model ----
(***************************************************************************)
(* MonPar: a parser-combinator library.  A parser is a function from an    *)
(* input string to a list holding zero or one [value, remainder] pair.     *)
(* The library's functions are modelled as tagged values and interpreted   *)
(* by Call, which returns how the call ended (return / throw / no end)     *)
(* together with the observable events it produced.                        *)
(***************************************************************************)
EXTENDS Integers, Sequences, FiniteSets, TLC

VARIABLES op, args, inp, built, out, pc, loop

vars == <<op, args, inp, built, out, pc, loop>>

-----------------------------------------------------------------------------
(* Bounds of the model *)

\* longest input string
MaxLen == 2
\* deepest nesting of calls followed before a call is reported as not ending
MaxDepth == 24
\* most alternatives handed to alts
MaxAlts == 3
\* most parsers handed to liftAs
MaxLift == 3
\* deepest nesting of the recursive grammar's well-formed inputs
MaxNest == 2

Alphabet == <<"a", "0", "<", ">", " ">>

RECURSIVE StringsUpTo(_)
StringsUpTo(n) ==
  IF n = 0 THEN {<<>>}
  ELSE LET S == StringsUpTo(n - 1)
       IN S \cup {Append(s, Alphabet[i]) : s \in {t \in S : Len(t) = n - 1}, i \in 1..Len(Alphabet)}

\* the inputs the recursive grammar accepts: "<a>", "<<a>>", ...
RECURSIVE Nested(_)
Nested(k) == IF k = 0 THEN <<"a">> ELSE <<"<">> \o Nested(k - 1) \o <<">">>
WellFormed == {Nested(k) : k \in 1..MaxNest}

\* longer inputs: whitespace on both sides, a literal with a rest, a run of letters
Samples ==
  { <<" ", "a", " ">>, <<"<", "a", "0">>, <<"a", "a", "0">>, <<" ", " ", "<", "a", " ">>,
    <<"\t", "a", "\n">>, <<"\n", " ", "0", "\t", "a">>, <<" ", "\t", "\n">> }

Inputs == StringsUpTo(MaxLen) \cup WellFormed \cup Samples

\* iterations of many's loop followed before it is reported as not ending:
\* more than a parser that consumes on every success can make on any input
MaxIter == 2 + 2 * MaxNest + MaxLen + 5

-----------------------------------------------------------------------------
(* JavaScript values *)

Str(s) == [t |-> "str", v |-> s]
Arr(s) == [t |-> "arr", v |-> s]
Undefined == [t |-> "undefined"]

\* outcomes of a call
Ret(v) == [st |-> "ret", v |-> v, log |-> <<>>]
Throw == [st |-> "throw", v |-> Undefined, log |-> <<>>]
Diverge == [st |-> "diverge", v |-> Undefined, log |-> <<>>]
Emit(e, o) == [o EXCEPT !.log = <<e>> \o @]

\* run o, and when it returns feed its value to K, keeping the events in order
\* (o is evaluated once, as the only element of a set)
Then(o, K(_)) ==
  CHOOSE y \in { IF r.st # "ret" THEN r ELSE [K(r.v) EXCEPT !.log = r.log \o @] : r \in {o} } : TRUE

\* type ParserRes<T> = [T, string][]
Failure == Arr(<<>>)
Success(v, rest) == Arr(<<Arr(<<v, rest>>)>>)

\* the zero-parameter closures: their .length is 0
ZeroArity == {"emptyP", "emptyFn", "thunk", "altsAcc", "node"}
Arity(f) ==
  IF f.k \in ZeroArity THEN 0
  ELSE IF f.k = "cfn" THEN f.params[f.stage]
  ELSE 1

\* x.length for strings, arrays and functions
Length(x) == IF x.t = "fn" THEN Arity(x) ELSE Len(x.v)

parserHasFailed(result) == Length(result) = 0

\* const [v, out] = res[0] works when res[0] is an array
HasPair(res) == res.t = "arr" /\ Len(res.v) > 0 /\ res.v[1].t = "arr"
Elem(a, i) == IF i <= Len(a.v) THEN a.v[i] ELSE Undefined
PairV(res) == Elem(res.v[1], 1)
PairOut(res) == Elem(res.v[1], 2)

-----------------------------------------------------------------------------
(* Constructors: the closures the library's functions return *)

take == [t |-> "fn", k |-> "take"]
peek == [t |-> "fn", k |-> "peek"]
pure(a) == [t |-> "fn", k |-> "pure", a |-> a]
emptyFn == [t |-> "fn", k |-> "emptyFn"]
empty == [t |-> "fn", k |-> "emptyP"]
fmap(fn, parser) == [t |-> "fn", k |-> "fmap", fn |-> fn, p |-> parser]
bind(parser, fn) == [t |-> "fn", k |-> "bind", p |-> parser, fn |-> fn]
alt(parserA, parserB) == [t |-> "fn", k |-> "alt", a |-> parserA, b |-> parserB]
\* alt of src/index.ts, whose second argument is always a thunk
altIndex(parserA, parserB) == [t |-> "fn", k |-> "altIndex", a |-> parserA, b |-> parserB]
many(parser) == [t |-> "fn", k |-> "many", p |-> parser]
some(parser) == [t |-> "fn", k |-> "some", p |-> parser]
sentence(str) == [t |-> "fn", k |-> "sentence", str |-> str]
logId(id, parser) == [t |-> "fn", k |-> "logId", id |-> id, p |-> parser]

\* () => x, counting its calls under the name id
thunk(id, x) == [t |-> "fn", k |-> "thunk", id |-> id, x |-> x]
\* the closure () => alt(acc(), curr) built by the reduce of alts
altsAcc(acc, curr, ver) == [t |-> "fn", k |-> "altsAcc", acc |-> acc, curr |-> curr, ver |-> ver]
\* a curried function (x1) => (x2) => ... => body: params[i] is the number of
\* parameters of its i-th stage, got the arguments received so far
cfn(name, params, stage, got) ==
  [t |-> "fn", k |-> "cfn", name |-> name, params |-> params, stage |-> stage, got |-> got]
\* the recursive grammar const node = () => liftAs(f, open, <choice>, close)
node(shape) == [t |-> "fn", k |-> "node", shape |-> shape]

\* continuations handed to bind
\* (x) => pred(x) ? pure(x) : empty(), pred given by the set of characters it accepts
satK(pred) == [t |-> "fn", k |-> "satK", pred |-> pred]
\* fn => fmap(fn, parserA)
apK(parserA) == [t |-> "fn", k |-> "apK", p |-> parserA]
\* x => { observe(x); return next(x) } with next one of the continuations below
probeK(id, next) == [t |-> "fn", k |-> "probeK", id |-> id, next |-> next]
\* _ => parser
constK(parser) == [t |-> "fn", k |-> "constK", p |-> parser]
\* x => pure(x)
pureK == [t |-> "fn", k |-> "pureK"]
\* (res) => liftAs(fn(res), ...fns.slice(1)), the continuation of src/index.ts's liftAs
liftK(fn, rest) == [t |-> "fn", k |-> "liftK", fn |-> fn, rest |-> rest]
\* v_i => bind(p_i+1, v_i+1 => ... pure(fn(v_1)...(v_n))) with got = <<v_1, ..., v_i-1>>
chainK(fn, rest, got) == [t |-> "fn", k |-> "chainK", fn |-> fn, rest |-> rest, got |-> got]
\* x_1 => bind(parser, x_2 => ... bind(parser, x_m => pure(acc + x_1 + ... + x_m)))
catK(parser, m, acc) == [t |-> "fn", k |-> "catK", p |-> parser, m |-> m, acc |-> acc]

\* a sat that looks at the first character without consuming it
sat_peeking(pred) == bind(peek, satK(pred))

sat(pred) == bind(take, satK(pred))
ap(parserFn, parserA) == bind(parserFn, apK(parserA))
char(c) == sat({c})

AlphaChars == {"a"}
NumericChars == {"0"}
WhitespaceChars == {"\n", "\t", " "}
alpha == sat(AlphaChars)
numeric == sat(NumericChars)
whitespace == sat(WhitespaceChars)

isImmediate(x) == x.t # "fn" \/ Arity(x) # 0


-----------------------------------------------------------------------------
(* The interpreter: f(x), followed to depth n *)

RECURSIVE Call(_, _, _)
RECURSIVE manyLoop(_, _, _, _, _)

\* reading x.length or x[0] throws when x is undefined
Unreadable(x) == x.t = "undefined"

\* force(t)
force(x, n) == IF isImmediate(x) THEN Ret(x) ELSE Call(x, Undefined, n)

\* bind running the continuation's parser on the input bind itself received
bindRun_sameInput(f, x, n) ==
  Then(Call(f.p, x, n), LAMBDA res :
    IF Unreadable(res) THEN Throw
    ELSE IF parserHasFailed(res) THEN Ret(Failure)
    ELSE IF ~HasPair(res) THEN Throw
    ELSE Then(Call(f.fn, PairV(res), n), LAMBDA g : Call(g, x, n)))

\* the body of bind's closure
bindRun(f, x, n) ==
  Then(Call(f.p, x, n), LAMBDA res :
    IF Unreadable(res) THEN Throw
    ELSE IF parserHasFailed(res) THEN Ret(Failure)
    ELSE IF ~HasPair(res) THEN Throw
    ELSE Then(Call(f.fn, PairV(res), n), LAMBDA g : Call(g, PairOut(res), n)))

\* fmap returning its pair in the other order: [[out, fn(v)]]
fmapRun_swapped(f, x, n) ==
  Then(Call(f.p, x, n), LAMBDA res :
    IF Unreadable(res) THEN Throw
    ELSE IF parserHasFailed(res) THEN Ret(Failure)
    ELSE IF ~HasPair(res) THEN Throw
    ELSE Then(Call(f.fn, PairV(res), n), LAMBDA w : Ret(Success(PairOut(res), w))))

\* the body of fmap's closure
fmapRun(f, x, n) ==
  Then(Call(f.p, x, n), LAMBDA res :
    IF Unreadable(res) THEN Throw
    ELSE IF parserHasFailed(res) THEN Ret(Failure)
    ELSE IF ~HasPair(res) THEN Throw
    ELSE Then(Call(f.fn, PairV(res), n), LAMBDA w : Ret(Success(w, PairOut(res)))))

\* alt forcing its second argument before it runs the first
altRun_eager(f, x, n) ==
  Then(force(f.b, n), LAMBDA q :
    Then(Call(f.a, x, n), LAMBDA res :
      IF Unreadable(res) THEN Throw
      ELSE IF parserHasFailed(res) THEN Call(q, x, n)
      ELSE Ret(res)))

\* the body of alt's closure
altRun(f, x, n) ==
  Then(Call(f.a, x, n), LAMBDA res :
    IF Unreadable(res) THEN Throw
    ELSE IF parserHasFailed(res)
         THEN Then(force(f.b, n), LAMBDA q : Call(q, x, n))
         ELSE Ret(res))

\* alt as a list of successes: the outcomes of both alternatives
altIndexRun_allOutcomes(f, x, n) ==
  Then(Call(f.a, x, n), LAMBDA res :
    IF Unreadable(res) THEN Throw
    ELSE Then(Call(f.b, Undefined, n), LAMBDA q :
           Then(Call(q, x, n), LAMBDA more :
             IF res.t = "arr" /\ more.t = "arr" THEN Ret(Arr(res.v \o more.v)) ELSE Throw)))

\* the body of the closure of src/index.ts's alt: parserB()(inp)
altIndexRun(f, x, n) ==
  Then(Call(f.a, x, n), LAMBDA res :
    IF Unreadable(res) THEN Throw
    ELSE IF Length(res) = 0
         THEN Then(Call(f.b, Undefined, n), LAMBDA q : Call(q, x, n))
         ELSE Ret(res))

\* many's loop keeping only the value of the latest success
manyLoop_lastOnly(parser, currentInp, result, i, n) ==
  IF i = 0 THEN Diverge
  ELSE Then(Call(parser, currentInp, n), LAMBDA o :
         IF Unreadable(o) THEN Throw
         ELSE IF Length(o) = 0 THEN Ret(Success(Arr(result), currentInp))
         ELSE IF ~HasPair(o) THEN Throw
         ELSE manyLoop(parser, PairOut(o), <<PairV(o)>>, i - 1, n))

\* many's loop: out = parser(currentInp); while (out.length !== 0) {...}
manyLoop(parser, currentInp, result, i, n) ==
  IF i = 0 THEN Diverge
  ELSE Then(Call(parser, currentInp, n), LAMBDA o :
         IF Unreadable(o) THEN Throw
         ELSE IF Length(o) = 0 THEN Ret(Success(Arr(result), currentInp))
         ELSE IF ~HasPair(o) THEN Throw
         ELSE manyLoop(parser, PairOut(o), Append(result, PairV(o)), i - 1, n))

\* the body of many's closure
manyRun(f, x, n) == manyLoop(f.p, x, <<>>, MaxIter, n)

\* some without its check for an empty sequence
someRun_neverFails(f, x, n) ==
  Then(Call(many(f.p), x, n), LAMBDA res : Ret(res))

\* the body of some's closure
someRun(f, x, n) ==
  Then(Call(many(f.p), x, n), LAMBDA res :
    IF Length(PairV(res)) = 0 THEN Ret(Failure) ELSE Ret(res))

\* a take that leaves the input as it was
takeRun_keepsInput(x) ==
  IF x.t # "str" THEN Throw
  ELSE IF Len(x.v) > 0 THEN Ret(Success(Str(<<Head(x.v)>>), x))
  ELSE Ret(Failure)

takeRun(x) ==
  IF x.t # "str" THEN Throw
  ELSE IF Len(x.v) > 0 THEN Ret(Success(Str(<<Head(x.v)>>), Str(Tail(x.v))))
  ELSE Ret(Failure)

\* a peek that fails on the empty input
peekRun_failsOnEmpty(x) ==
  IF x.t # "str" THEN Throw
  ELSE IF Len(x.v) > 0 THEN Ret(Success(Str(<<Head(x.v)>>), x))
  ELSE Ret(Failure)

peekRun(x) ==
  IF x.t # "str" THEN Throw
  ELSE Ret(Success(Str(IF Len(x.v) > 0 THEN <<Head(x.v)>> ELSE <<>>), x))

\* a sentence that compares without the length guard and the slice
sentenceRun_prefixOfLiteral(f, x) ==
  IF x.t # "str" THEN Throw
  ELSE LET k == IF Len(x.v) < Len(f.str) THEN Len(x.v) ELSE Len(f.str)
           former == SubSeq(x.v, 1, k)
           latter == SubSeq(x.v, k + 1, Len(x.v))
       IN IF former = SubSeq(f.str, 1, k) THEN Ret(Success(Str(former), Str(latter)))
          ELSE Ret(Failure)

sentenceRun(f, x) ==
  IF x.t # "str" THEN Throw
  ELSE IF Len(x.v) < Len(f.str) THEN Ret(Failure)
  ELSE LET former == SubSeq(x.v, 1, Len(f.str))
           latter == SubSeq(x.v, Len(f.str) + 1, Len(x.v))
       IN IF former = f.str THEN Ret(Success(Str(former), Str(latter))) ELSE Ret(Failure)

\* x + y on strings
Plus(x, y) == IF x.t = "str" /\ y.t = "str" THEN Str(x.v \o y.v) ELSE Undefined

\* x1 + x2 + ... + xn on strings
RECURSIVE Flatten(_)
Flatten(xs) == IF Len(xs) = 0 THEN <<>> ELSE Head(xs).v \o Flatten(Tail(xs))

\* the body of a curried function applied to all its arguments
cfnBody(name, got) ==
  CASE name = "nodeObj" -> [t |-> "obj", node |-> got[1], child |-> got[2]]
    [] name = "second" -> got[1]
    [] name = "plus" -> Plus(got[1], got[2])
    [] name = "concat" -> Str(Flatten(got))

\* one stage of a curried function receives x
cfnRun(f, x) ==
  LET got == IF f.params[f.stage] = 1 THEN Append(f.got, x) ELSE f.got
  IN IF f.stage = Len(f.params) THEN Ret(cfnBody(f.name, got))
     ELSE Ret(cfn(f.name, f.params, f.stage + 1, got))

\* liftAs(fn, ...fns): fns.slice(1).reduce((a, b) => ap(a, b), fmap(fn, fns[0]))
RECURSIVE reduceAp(_, _)
reduceAp(a, rest) == IF Len(rest) = 0 THEN a ELSE reduceAp(ap(a, Head(rest)), Tail(rest))

\* a liftAs that reduces over fns.slice(2)
liftAs_sliceTwo(fn, fns) ==
  IF Len(fns) = 0 THEN fn
  ELSE IF Len(fns) = 1 THEN fmap(fn, fns[1])
  ELSE reduceAp(fmap(fn, fns[1]), Tail(Tail(fns)))

liftAs(fn, fns) ==
  IF Len(fns) = 0 THEN fn
  ELSE IF Len(fns) = 1 THEN fmap(fn, fns[1])
  ELSE reduceAp(fmap(fn, fns[1]), Tail(fns))

\* liftAs of src/index.ts: bind(fns[0], (res) => liftAs(fn(res), ...fns.slice(1)))
liftAsIndex(fn, fns) ==
  IF Len(fns) = 0 THEN fn
  ELSE IF Len(fns) = 1 THEN fmap(fn, fns[1])
  ELSE bind(fns[1], liftK(fn, Tail(fns)))

\* fn(v1)(v2)...(vn)
RECURSIVE applyAll(_, _, _)
applyAll(fn, vs, n) ==
  IF Len(vs) = 0 THEN Ret(fn)
  ELSE Then(Call(fn, Head(vs), n), LAMBDA g : applyAll(g, Tail(vs), n))

\* bind(p1, v1 => bind(p2, v2 => ... pure(fn(v1)...(vn))))
bindChain(fn, fns) == bind(fns[1], chainK(fn, Tail(fns), <<>>))

RECURSIVE reduceAlts(_, _, _)

\* a reduce that stops after the second alternative
reduceAlts_firstTwo(acc, rest, ver) ==
  IF Len(rest) = 0 THEN acc ELSE altsAcc(acc, Head(rest), ver)

\* parsers.reduce((acc, curr) => () => alt(acc(), curr)): no initial value, so the
\* accumulator starts as parsers[0]
reduceAlts(acc, rest, ver) ==
  IF Len(rest) = 0 THEN acc ELSE reduceAlts(altsAcc(acc, Head(rest), ver), Tail(rest), ver)

\* alts(...parsers): the reduced closure is called at once
alts(parsers, ver, n) ==
  IF Len(parsers) = 0 THEN Throw
  ELSE Call(reduceAlts(Head(parsers), Tail(parsers), ver), Undefined, n)

\* the pieces of the recursive grammar
open == char("<")
close == char(">")
text == alpha
nodeFn == cfn("nodeObj", <<1, 1, 0>>, 1, <<>>)

\* the body of node: () => liftAs(f, open, <choice between text and node>, close)
nodeRun(f, n) ==
  LET choice == CASE f.shape = "alt" -> Ret(alt(text, f))
                  [] f.shape = "altsLast" -> alts(<<thunk(0, text), f>>, "lazy", n)
                  [] f.shape = "altsFirst" -> alts(<<f, thunk(0, text)>>, "lazy", n)
  IN Emit(<<"node">>, Then(choice, LAMBDA c : Ret(liftAs(nodeFn, <<open, c, close>>))))

Call(f, x, n) ==
  IF f.t # "fn" THEN Throw
  ELSE IF n = 0 THEN Diverge
  ELSE CASE f.k = "take" -> takeRun(x)
         [] f.k = "peek" -> peekRun(x)
         [] f.k = "pure" -> Ret(Success(f.a, x))
         [] f.k = "emptyP" -> Ret(Failure)
         [] f.k = "emptyFn" -> Ret(empty)
         [] f.k = "sentence" -> sentenceRun(f, x)
         [] f.k = "bind" -> bindRun(f, x, n - 1)
         [] f.k = "fmap" -> fmapRun(f, x, n - 1)
         [] f.k = "alt" -> altRun(f, x, n - 1)
         [] f.k = "altIndex" -> altIndexRun(f, x, n - 1)
         [] f.k = "many" -> manyRun(f, x, n - 1)
         [] f.k = "some" -> someRun(f, x, n - 1)
         [] f.k = "logId" -> Emit(<<"run", f.id, x>>, Call(f.p, x, n - 1))
         [] f.k = "thunk" -> Emit(<<"force", f.id>>, Ret(f.x))
         [] f.k = "altsAcc" ->
              Then(Call(f.acc, Undefined, n - 1), LAMBDA a :
                Ret(IF f.ver = "index" THEN altIndex(a, f.curr) ELSE alt(a, f.curr)))
         [] f.k = "cfn" -> cfnRun(f, x)
         [] f.k = "node" -> nodeRun(f, n - 1)
         [] f.k = "satK" ->
              IF x.t = "str" /\ Len(x.v) = 1 /\ x.v[1] \in f.pred
              THEN Ret(pure(x)) ELSE Ret(empty)
         [] f.k = "apK" -> Ret(fmap(x, f.p))
         [] f.k = "probeK" -> Emit(<<"k", f.id, x>>, Call(f.next, x, n - 1))
         [] f.k = "constK" -> Ret(f.p)
         [] f.k = "pureK" -> Ret(pure(x))
         [] f.k = "liftK" ->
              Then(Call(f.fn, x, n - 1), LAMBDA g : Ret(liftAsIndex(g, f.rest)))
         [] f.k = "chainK" ->
              IF Len(f.rest) = 0
              THEN Then(applyAll(f.fn, Append(f.got, x), n - 1), LAMBDA w : Ret(pure(w)))
              ELSE Ret(bind(Head(f.rest), chainK(f.fn, Tail(f.rest), Append(f.got, x))))
         [] f.k = "catK" ->
              IF f.m = 1 THEN Ret(pure(Plus(f.acc, x)))
              ELSE Ret(bind(f.p, catK(f.p, f.m - 1, Plus(f.acc, x))))

\* parser(inp) for an input string
Run(parser, s) == Call(parser, Str(s), MaxDepth)

\* unpack without its check of the remainder
unpack_anyRemainder(parser, s) ==
  Then(Run(parser, s), LAMBDA res :
    IF Unreadable(res) THEN Throw
    ELSE IF parserHasFailed(res) THEN Ret(Undefined)
    ELSE IF ~HasPair(res) THEN Throw
    ELSE Ret(PairV(res)))

\* unpack(parser)(inp)
unpack(parser, s) ==
  Then(Run(parser, s), LAMBDA res :
    IF Unreadable(res) THEN Throw
    ELSE IF parserHasFailed(res) THEN Ret(Undefined)
    ELSE IF ~HasPair(res) THEN Throw
    ELSE IF PairOut(res) # Str(<<>>) THEN Ret(Undefined)
    ELSE Ret(PairV(res)))

\* the call of a constructed parser; a construction that did not return has no parser to call
Apply(c, s) == IF c.st = "ret" THEN Run(c.v, s) ELSE [c EXCEPT !.log = <<>>]

-----------------------------------------------------------------------------
(* The parsers the operations are applied to *)

\* x => y => z => x + y + z over three takes, and the two-take chain
takeThree == bind(take, catK(take, 3, Str(<<>>)))
takeTwo == bind(take, catK(take, 2, Str(<<>>)))
\* consumes a character and then fails
takeThenFail == bind(take, constK(empty))

Leaves ==
  { take, peek, empty, pure(Str(<<"v">>)), alpha, numeric, char("<"),
    sentence(<<"<", "a">>), sentence(<<>>), whitespace }

Composites ==
  { takeTwo, takeThree, takeThenFail, many(alpha), some(numeric),
    alt(alpha, numeric), many(take), liftAs(cfn("plus", <<1, 1>>, 1, <<>>), <<alpha, numeric>>) }

Parsers == Leaves \cup Composites

\* continuations handed to bind (each observed through probeK)
Conts ==
  { pureK, constK(empty), constK(take), satK(AlphaChars),
    catK(take, 2, Str(<<>>)), catK(take, 3, Str(<<>>)), constK(sentence(<<"a">>)) }

\* alternatives handed to alt
AltParsers == { take, empty, alpha, char("<"), takeThenFail, sentence(<<"<", "a">>) }

\* alternatives handed to alts
AltsParsers == { numeric, alpha, char("<"), sentence(<<"<", "a">>), takeThenFail }

NodeShapes == { "alt", "altsLast", "altsFirst" }

\* parsers handed to liftAs, and the curried functions that combine n of their values:
\* x1 => ... => xn => x1 + ... + xn, and token's () => (res) => () => res for n = 3
LiftParsers == { take, alpha, sentence(<<"<", "a">>), pure(Str(<<"v">>)) }
concatFn(n) == cfn("concat", [i \in 1..n |-> 1], 1, <<>>)
secondFn == cfn("second", <<0, 1, 0>>, 1, <<>>)
LiftFns(n) == IF n = 3 THEN {concatFn(n), secondFn} ELSE {concatFn(n)}

\* a token that strips the whitespace in front of the parser only
token_leadingOnly(parser) == liftAs(cfn("second", <<0, 1>>, 1, <<>>), <<many(whitespace), parser>>)

\* liftAs(() => (res) => () => res, many(whitespace), parser, many(whitespace))
token(parser) == liftAs(secondFn, <<many(whitespace), parser, many(whitespace)>>)

\* predicates handed to sat, each given by the set of characters it accepts
Chars == { Alphabet[i] : i \in 1..Len(Alphabet) } \cup WhitespaceChars
Preds == { AlphaChars, NumericChars, WhitespaceChars, {}, Chars, {"a", "<"} }

\* literals handed to sentence
Literals == StringsUpTo(MaxLen)

\* an argument of alt or alts in one of the forms a caller can write it
Shaped(shape, id, p) ==
  CASE shape = "thunk" -> thunk(id, logId(id, p))
    [] shape = "wrapped" -> logId(id, p)
    [] shape = "bare" -> p

\* the alt a caller builds from args
AltOf(a) ==
  IF a.ver = "index" THEN altIndex(Shaped(a.first, 1, a.p), Shaped(a.second, 2, a.q))
  ELSE alt(Shaped(a.first, 1, a.p), Shaped(a.second, 2, a.q))

\* the arguments a caller hands to alts
AltsArgs(a) == [i \in 1..Len(a.ps) |-> Shaped(a.shape, i, a.ps[i])]

-----------------------------------------------------------------------------
(* Operations *)

\* the locals of many's closure: currentInp, result and out
NoLoop == [currentInp |-> Undefined, result |-> <<>>, out |-> Undefined]

Init ==
  /\ inp \in Inputs
  /\ op = "none"
  /\ args = <<>>
  /\ built = Ret(Undefined)
  /\ out = Ret(Undefined)
  /\ pc = "idle"
  /\ loop = NoLoop

\* unpack(p)(inp)
Unpack ==
  /\ pc = "idle"
  /\ \E p \in Parsers :
       /\ op' = "unpack"
       /\ args' = [p |-> p]
       /\ built' = Ret(p)
       /\ out' = unpack(p, inp)
  /\ pc' = "done"
  /\ UNCHANGED <<inp, loop>>

\* bind(p, f)(inp), f observed
Bind ==
  /\ pc = "idle"
  /\ \E p \in Parsers, f \in Conts :
       /\ op' = "bind"
       /\ args' = [p |-> p, f |-> probeK(1, f)]
       /\ built' = Ret(bind(p, probeK(1, f)))
       /\ out' = Run(bind(p, probeK(1, f)), inp)
  /\ pc' = "done"
  /\ UNCHANGED <<inp, loop>>

\* alt(p, q)(inp), with the alt of either source file and the arguments in any form
Alt ==
  /\ pc = "idle"
  /\ \E p \in AltParsers, q \in AltParsers,
        form \in { <<"lazy", "wrapped", "thunk">>, <<"lazy", "wrapped", "wrapped">>,
                   <<"lazy", "wrapped", "bare">>, <<"lazy", "thunk", "thunk">>,
                   <<"lazy", "thunk", "wrapped">>, <<"index", "wrapped", "thunk">> } :
       LET a == [ver |-> form[1], first |-> form[2], second |-> form[3], p |-> p, q |-> q]
       IN /\ op' = "alt"
          /\ args' = a
          /\ built' = Ret(AltOf(a))
          /\ out' = Run(AltOf(a), inp)
  /\ pc' = "done"
  /\ UNCHANGED <<inp, loop>>

\* const parser = alts(t1, ..., tn)
AltsConstruct ==
  /\ pc = "idle"
  /\ \E n \in 2..MaxAlts :
       \E ps \in [1..n -> AltsParsers],
          form \in { <<"lazy", "thunk">>, <<"lazy", "bare">>, <<"index", "thunk">> } :
         LET a == [ver |-> form[1], shape |-> form[2], ps |-> ps]
         IN /\ op' = "alts"
            /\ args' = a
            /\ built' = alts(AltsArgs(a), a.ver, MaxDepth)
  /\ pc' = "built"
  /\ UNCHANGED <<inp, out, loop>>

\* const parser = node()
NodeConstruct ==
  /\ pc = "idle"
  /\ \E shape \in NodeShapes :
       /\ op' = "node"
       /\ args' = [shape |-> shape]
       /\ built' = Call(node(shape), Undefined, MaxDepth)
  /\ pc' = "built"
  /\ UNCHANGED <<inp, out, loop>>

\* parser(inp) for the parser constructed before
ApplyBuilt ==
  /\ pc = "built"
  /\ out' = Apply(built, inp)
  /\ pc' = "done"
  /\ UNCHANGED <<op, args, inp, built, loop>>

\* many(p)(inp)
Many ==
  /\ pc = "idle"
  /\ \E p \in Parsers :
       /\ op' = "many"
       /\ args' = [p |-> p]
       /\ built' = Ret(many(p))
       /\ out' = Run(many(p), inp)
  /\ pc' = "done"
  /\ UNCHANGED <<inp, loop>>

\* some(p)(inp)
Some ==
  /\ pc = "idle"
  /\ \E p \in Parsers :
       /\ op' = "some"
       /\ args' = [p |-> p]
       /\ built' = Ret(some(p))
       /\ out' = Run(some(p), inp)
  /\ pc' = "done"
  /\ UNCHANGED <<inp, loop>>

\* liftAs(fn, p1, ..., pn)(inp), with the liftAs of either source file
LiftAs ==
  /\ pc = "idle"
  /\ \E n \in 1..MaxLift :
       \E ps \in [1..n -> LiftParsers], fn \in LiftFns(n), ver \in {"ap", "index"} :
         LET parser == IF ver = "index" THEN liftAsIndex(fn, ps) ELSE liftAs(fn, ps)
         IN /\ op' = "liftAs"
            /\ args' = [fn |-> fn, ps |-> ps, ver |-> ver]
            /\ built' = Ret(parser)
            /\ out' = Run(parser, inp)
  /\ pc' = "done"
  /\ UNCHANGED <<inp, loop>>

\* token(p)(inp)
Token ==
  /\ pc = "idle"
  /\ \E p \in Parsers :
       /\ op' = "token"
       /\ args' = [p |-> p]
       /\ built' = Ret(token(p))
       /\ out' = Run(token(p), inp)
  /\ pc' = "done"
  /\ UNCHANGED <<inp, loop>>

\* sat(pred)(inp)
Sat ==
  /\ pc = "idle"
  /\ \E pred \in Preds :
       /\ op' = "sat"
       /\ args' = [pred |-> pred]
       /\ built' = Ret(sat(pred))
       /\ out' = Run(sat(pred), inp)
  /\ pc' = "done"
  /\ UNCHANGED <<inp, loop>>

\* char(c)(inp)
Char ==
  /\ pc = "idle"
  /\ \E c \in Chars :
       /\ op' = "char"
       /\ args' = [c |-> c]
       /\ built' = Ret(char(c))
       /\ out' = Run(char(c), inp)
  /\ pc' = "done"
  /\ UNCHANGED <<inp, loop>>

\* sentence(str)(inp)
Sentence ==
  /\ pc = "idle"
  /\ \E str \in Literals :
       /\ op' = "sentence"
       /\ args' = [str |-> str]
       /\ built' = Ret(sentence(str))
       /\ out' = Run(sentence(str), inp)
  /\ pc' = "done"
  /\ UNCHANGED <<inp, loop>>

\* peek(inp)
Peek ==
  /\ pc = "idle"
  /\ op' = "peek"
  /\ args' = <<>>
  /\ built' = Ret(peek)
  /\ out' = Run(peek, inp)
  /\ pc' = "done"
  /\ UNCHANGED <<inp, loop>>

\* take(inp)
Take ==
  /\ pc = "idle"
  /\ op' = "take"
  /\ args' = <<>>
  /\ built' = Ret(take)
  /\ out' = Run(take, inp)
  /\ pc' = "done"
  /\ UNCHANGED <<inp, loop>>

\* p(inp) for a parser of the library
Parse ==
  /\ pc = "idle"
  /\ \E p \in Parsers :
       /\ op' = "parse"
       /\ args' = [p |-> p]
       /\ built' = Ret(p)
       /\ out' = Run(p, inp)
  /\ pc' = "done"
  /\ UNCHANGED <<inp, loop>>

Next ==
  \/ Unpack
  \/ Bind
  \/ Alt
  \/ AltsConstruct
  \/ NodeConstruct
  \/ ApplyBuilt
  \/ Many
  \/ Some
  \/ LiftAs
  \/ Token
  \/ Sat
  \/ Char
  \/ Sentence
  \/ Peek
  \/ Take
  \/ Parse

Spec == Init /\ [][Next]_vars

-----------------------------------------------------------------------------
(* many's loop, one iteration a step *)

\* an iteration that forgets currentInp = remainingInp
manyStep_noAdvance(parser, l) ==
  [currentInp |-> l.currentInp,
   result |-> Append(l.result, PairV(l.out)),
   out |-> Call(parser, l.currentInp, MaxDepth).v]

\* the body of the while loop: result.push(v); currentInp = remainingInp;
\* out = parser(currentInp)
manyStep(parser, l) ==
  [currentInp |-> PairOut(l.out),
   result |-> Append(l.result, PairV(l.out)),
   out |-> Call(parser, PairOut(l.out), MaxDepth).v]

\* many(p)(inp) or some(p)(inp) up to the loop: let currentInp = inp; const result = [];
\* let out = parser(currentInp)
LoopEnter ==
  /\ pc = "idle"
  /\ \E p \in Parsers, which \in {"many", "some"} :
       /\ op' = "loop"
       /\ args' = [p |-> p, which |-> which]
       /\ built' = Ret(IF which = "many" THEN many(p) ELSE some(p))
       /\ loop' = [currentInp |-> Str(inp), result |-> <<>>, out |-> Run(p, inp).v]
  /\ pc' = "loop"
  /\ UNCHANGED <<inp, out>>

\* one iteration: while (out.length !== 0) { ... }, followed until the iterations
\* outnumber the characters of the input
LoopStep ==
  /\ pc = "loop"
  /\ Length(loop.out) # 0
  /\ Len(loop.result) <= Len(inp)
  /\ loop' = manyStep(args.p, loop)
  /\ UNCHANGED <<op, args, inp, built, out, pc>>

\* the loop ends: return [[result, currentInp]], which some turns into [] when result is empty
LoopExit ==
  /\ pc = "loop"
  /\ Length(loop.out) = 0
  /\ out' = IF args.which = "some" /\ Len(loop.result) = 0 THEN Ret(Failure)
            ELSE Ret(Success(Arr(loop.result), loop.currentInp))
  /\ pc' = "done"
  /\ UNCHANGED <<op, args, inp, built, loop>>

NextLoop ==
  \/ LoopEnter
  \/ LoopStep
  \/ LoopExit

\* the loop is synchronous code: once entered, an iteration or the return that can
\* run does run
SpecLoop == Init /\ [][NextLoop]_vars /\ WF_vars(LoopStep) /\ WF_vars(LoopExit)

-----------------------------------------------------------------------------
(* Properties *)

Done(o) == op = o /\ pc = "done"

Succeeded(o) == o.st = "ret" /\ HasPair(o.v)
Failed(o) == o.st = "ret" /\ o.v = Failure

\* the events of a log that are calls of the thunk id / runs of the alternative id /
\* invocations of the continuation
Forces(log, id) == SelectSeq(log, LAMBDA e : e[1] = "force" /\ e[2] = id)
Runs(log, id) == SelectSeq(log, LAMBDA e : e[1] = "run" /\ e[2] = id)
Invocations(log) == SelectSeq(log, LAMBDA e : e[1] = "k")

\* C1: unpack(p)(s) returns p's value exactly when p(s) succeeds with an empty
\* remainder; when p fails or leaves a non-empty remainder it returns undefined
C1_UnpackIffFullyConsumed ==
  Done("unpack") =>
    LET r == Run(args.p, inp)
    IN /\ out.st = "ret"
       /\ (out.v # Undefined) <=> (Succeeded(r) /\ PairOut(r.v) = Str(<<>>))
       /\ (out.v # Undefined) => out.v = PairV(r.v)

C1_Witness ==
  /\ Done("unpack")
  /\ args.p = sentence(<<"<", "a">>)
  /\ inp = <<"<", "a">>
  /\ out.v = Str(<<"<", "a">>)

\* C2: bind(p, f)(s) fails without invoking f when p(s) fails; when p(s) succeeds
\* with (v, rest), f is invoked exactly once, with v, and the result is f(v)(rest);
\* so three takes in a chain fail on an input shorter than three characters
C2_BindShortCircuits ==
  Done("bind") =>
    LET r == Run(args.p, inp)
        ks == Invocations(out.log)
    IN /\ Failed(r) => (out.v = Failure /\ ks = <<>>)
       /\ Succeeded(r) =>
            /\ ks = << <<"k", 1, PairV(r.v)>> >>
            /\ LET fv == Call(args.f, PairV(r.v), MaxDepth)
               IN out.v = Call(fv.v, PairOut(r.v), MaxDepth).v
       /\ (args.p = take /\ args.f = probeK(1, catK(take, 3, Str(<<>>))))
            => (out.v = Failure <=> Len(inp) < 3)

C2_Witness ==
  /\ Done("bind")
  /\ args.p = take
  /\ args.f = probeK(1, catK(take, 3, Str(<<>>)))
  /\ Len(inp) = 1
  /\ Len(Invocations(out.log)) = 1
  /\ out.v = Failure

\* C3: in one invocation of alt(p, q) or alts(t1, ..., tn) a non-first alternative
\* is forced or run only if every earlier alternative failed on the input, and is
\* forced at most once; when p succeeds the result is p's and q is untouched
C3_LaterAlternativesOnDemand ==
  /\ (Done("alt") /\ args.first = "wrapped") =>
       LET r == Run(args.p, inp)
       IN /\ Len(Forces(out.log, 2)) <= 1
          /\ (Forces(out.log, 2) # <<>> \/ Runs(out.log, 2) # <<>>) => Failed(r)
          /\ Succeeded(r) => out.v = r.v
  /\ (Done("alts") /\ args.shape = "thunk") =>
       \A i \in 2..Len(args.ps) :
          /\ Len(Forces(out.log, i)) <= 1
          /\ (Forces(out.log, i) # <<>> \/ Runs(out.log, i) # <<>>)
               => \A j \in 1..(i - 1) : Failed(Run(args.ps[j], inp))

C3_Witness ==
  /\ Done("alts")
  /\ args.shape = "thunk"
  /\ Len(args.ps) = 3
  /\ Len(Forces(out.log, 2)) = 1
  /\ Len(Runs(out.log, 2)) = 1
  /\ Forces(out.log, 3) = <<>>
  /\ Succeeded(out)

\* C4: when p fails on s, alt(p, q)(s) is q(s), q run on the original s; alt(p, q)(s)
\* fails exactly when both p(s) and q(s) fail
C4_AltFallsBackOnOriginalInput ==
  (Done("alt") /\ args.first = "wrapped") =>
    LET rp == Run(args.p, inp)
        rq == Run(args.q, inp)
    IN /\ out.st = "ret"
       /\ Failed(rp) => out.v = rq.v
       /\ \A i \in 1..Len(Runs(out.log, 2)) : Runs(out.log, 2)[i][3] = Str(inp)
       /\ out.v = Failure <=> (Failed(rp) /\ Failed(rq))

\* C4 for a second argument that is a thunk or a closure with one parameter
C4_AltFallsBackUnlessZeroParameterParser ==
  (Done("alt") /\ args.first = "wrapped" /\ (args.second = "bare" => Arity(args.q) # 0)) =>
    LET rp == Run(args.p, inp)
        rq == Run(args.q, inp)
    IN /\ out.st = "ret"
       /\ Failed(rp) => out.v = rq.v
       /\ \A i \in 1..Len(Runs(out.log, 2)) : Runs(out.log, 2)[i][3] = Str(inp)
       /\ out.v = Failure <=> (Failed(rp) /\ Failed(rq))

\* the lowest-indexed alternative that succeeds on s, 0 when none does
FirstSuccess(ps, s) ==
  LET won == {i \in 1..Len(ps) : Succeeded(Run(ps[i], s))}
  IN IF won = {} THEN 0 ELSE CHOOSE i \in won : \A j \in won : i <= j

\* C5: alts(t1, ..., tn)(s) is the outcome on s of the lowest-indexed alternative
\* that succeeds on s, and fails exactly when every alternative fails on s
C5_AltsFirstSuccessWins ==
  (Done("alts") /\ args.shape = "thunk") =>
    LET w == FirstSuccess(args.ps, inp)
    IN /\ out.st = "ret"
       /\ w = 0 <=> out.v = Failure
       /\ w # 0 => out.v = Run(args.ps[w], inp).v

C5_Witness ==
  /\ Done("alts")
  /\ args.shape = "thunk"
  /\ args.ps = <<numeric, sentence(<<"<", "a">>), char("<")>>
  /\ inp = <<"<", "a", "0">>
  /\ out.v = Success(Str(<<"<", "a">>), Str(<<"0">>))

\* C6: constructing alts(t1, ..., tn) forces none of t1..tn before the parser is
\* applied to an input
C6_AltsConstructionForcesNothing ==
  (op = "alts" /\ pc = "built" /\ args.shape = "thunk") =>
    /\ built.st = "ret"
    /\ \A i \in 1..Len(args.ps) : Forces(built.log, i) = <<>>

\* C7: a grammar whose self-reference is a zero-argument function inside alt or
\* alts is constructed by one call of that function, and applied to a well-formed
\* input it returns the parse of the whole input
C7_RecursiveGrammarTerminates ==
  /\ (op = "node" /\ pc \in {"built", "done"}) =>
       /\ built.st = "ret"
       /\ Len(SelectSeq(built.log, LAMBDA e : e[1] = "node")) = 1
  /\ (Done("node") /\ inp \in WellFormed) =>
       /\ Succeeded(out)
       /\ PairOut(out.v) = Str(<<>>)

\* C8: alts given immediate parsers has the outcome of alts given thunks of them,
\* and alt(() => p, q) has the outcome of alt(p, q)
C8_ImmediateAndThunkArgumentsAgree ==
  /\ (Done("alts") /\ args.shape = "bare") =>
       LET viaThunks == Apply(alts(AltsArgs([args EXCEPT !.shape = "thunk"]), args.ver, MaxDepth), inp)
       IN out.st = viaThunks.st /\ out.v = viaThunks.v
  /\ (Done("alt") /\ args.first = "thunk") =>
       LET viaParser == Run(AltOf([args EXCEPT !.first = "wrapped"]), inp)
       IN out.st = viaParser.st /\ out.v = viaParser.v

\* the remainder after k successful applications of p starting from s
RECURSIVE Chain(_, _, _)
Chain(p, s, k) ==
  IF k = 0 THEN Str(s) ELSE PairOut(Call(p, Chain(p, s, k - 1), MaxDepth).v)

\* C9: many(p)(s) never fails; its values are those of p applied to the successive
\* remainders, in order, its remainder the one after the last success, on which p
\* fails; when p fails on s the result is the empty sequence and s
C9_ManyCollectsUntilFailure ==
  Done("many") =>
    /\ out.st # "throw"
    /\ out.st = "ret" =>
         /\ HasPair(out.v)
         /\ LET vs == PairV(out.v).v
            IN /\ \A i \in 1..Len(vs) :
                    LET r == Call(args.p, Chain(args.p, inp, i - 1), MaxDepth)
                    IN Succeeded(r) /\ PairV(r.v) = vs[i]
               /\ PairOut(out.v) = Chain(args.p, inp, Len(vs))
               /\ Failed(Call(args.p, PairOut(out.v), MaxDepth))
         /\ Failed(Run(args.p, inp)) => out.v = Success(Arr(<<>>), Str(inp))

C9_Witness ==
  /\ Done("many")
  /\ args.p = alpha
  /\ inp = <<"a", "a", "0">>
  /\ out.v = Success(Arr(<<Str(<<"a">>), Str(<<"a">>)>>), Str(<<"0">>))

\* C10: some(p)(s) fails exactly when many(p)(s) returns the empty sequence, and
\* is many(p)(s) otherwise
C10_SomeIsNonEmptyMany ==
  Done("some") =>
    LET m == Run(many(args.p), inp)
    IN /\ out.st = m.st
       /\ m.st = "ret" =>
            IF PairV(m.v) = Arr(<<>>) THEN out.v = Failure ELSE out.v = m.v

C10_Witness ==
  /\ Done("some")
  /\ args.p = alpha
  /\ inp = <<"a", "a", "0">>
  /\ out.v = Success(Arr(<<Str(<<"a">>), Str(<<"a">>)>>), Str(<<"0">>))

\* the inputs left when characters are taken off the front of s
Suffixes(s) == {SubSeq(s, i, Len(s)) : i \in 1..(Len(s) + 1)}
\* every success of p, on any input or remainder of one, consumes at least one character
Consumes(p) ==
  \A s \in Inputs : \A u \in Suffixes(s) :
    LET r == Run(p, u)
    IN Succeeded(r) => Len(PairOut(r.v).v) < Len(u)

ConsumingParsers == {p \in Parsers : Consumes(p)}

\* p succeeds on the current input without consuming any of it
StuckOn(l) == HasPair(l.out) /\ PairOut(l.out) = l.currentInp

\* C11 (state part): with a p whose every success consumes, the loop makes at most
\* |s| iterations, and what it returns is what many(p)(s) / some(p)(s) returns
C11_LoopBounded ==
  /\ (op = "loop" /\ args.p \in ConsumingParsers) => Len(loop.result) <= Len(inp)
  /\ Done("loop") => out = Run(built.v, inp)

\* C11 (step part): nothing checks for a success that consumed nothing; from then on
\* every iteration finds the loop condition true again, on the same input
C11_LoopNeverLeavesZeroConsumption ==
  [][(pc = "loop" /\ StuckOn(loop)) => (pc' = "loop" /\ StuckOn(loop'))]_vars

\* C11: many(p)(s) and some(p)(s) return, after at most |s| iterations, whenever every
\* success of p consumes at least one character; with a p that succeeds without
\* consuming (peek, pure(v), sentence("")) the loop never ends
C11_LoopTerminatesIffConsuming ==
  /\ []C11_LoopBounded
  /\ (op = "loop" /\ args.p \in ConsumingParsers) ~> (pc = "done")
  /\ C11_LoopNeverLeavesZeroConsumption
  /\ []((op = "loop" /\ args.p \in {peek, pure(Str(<<"v">>)), sentence(<<>>)})
         => (pc = "loop" /\ args.p \notin ConsumingParsers))

C11_Witness ==
  /\ Done("loop")
  /\ args.p = take
  /\ inp = <<"a", "a", "0">>
  /\ Len(loop.result) = Len(inp)
  /\ out.v = Success(Arr(<<Str(<<"a">>), Str(<<"a">>), Str(<<"0">>)>>), Str(<<>>))

\* p1..pn run left to right, each on the remainder the previous one left
RECURSIVE Sequenced(_, _, _)
Sequenced(ps, x, vs) ==
  IF Len(ps) = 0 THEN [ok |-> TRUE, vs |-> vs, rest |-> x]
  ELSE LET r == Call(Head(ps), x, MaxDepth)
       IN IF Succeeded(r) THEN Sequenced(Tail(ps), PairOut(r.v), Append(vs, PairV(r.v)))
          ELSE [ok |-> FALSE, vs |-> vs, rest |-> x]

\* C12: liftAs(fn, p1, ..., pn), n >= 1, runs p1..pn in order on the successive
\* remainders and succeeds with fn(v1)...(vn) and the last remainder, failing as
\* soon as one of them fails; its outcome is that of the nested chain of binds, in
\* both of the repository's implementations
C12_LiftAsSequences ==
  Done("liftAs") =>
    LET q == Sequenced(args.ps, Str(inp), <<>>)
    IN /\ out.st = "ret"
       /\ q.ok => out.v = Success(applyAll(args.fn, q.vs, MaxDepth).v, q.rest)
       /\ ~q.ok => out.v = Failure
       /\ out = Run(bindChain(args.fn, args.ps), inp)
       /\ out = Run(liftAs(args.fn, args.ps), inp)
       /\ out = Run(liftAsIndex(args.fn, args.ps), inp)

C12_Witness ==
  /\ Done("liftAs")
  /\ args.ver = "ap"
  /\ args.fn = concatFn(3)
  /\ args.ps = <<take, alpha, take>>
  /\ inp = <<"a", "a", "0">>
  /\ out.v = Success(Str(<<"a", "a", "0">>), Str(<<>>))

\* s without its maximal leading run of whitespace
RECURSIVE StripLeading(_)
StripLeading(s) ==
  IF Len(s) > 0 /\ Head(s) \in {"\n", "\t", " "} THEN StripLeading(Tail(s)) ELSE s

\* C13: with inp = w ++ t, w the maximal leading run of whitespace, token(p)(inp)
\* fails exactly when p(t) fails, and when p(t) succeeds with (v, r) it succeeds
\* with v and r stripped of its leading whitespace, so that the remainder never
\* starts with whitespace
C13_TokenStripsBothSides ==
  Done("token") =>
    LET t == StripLeading(inp)
        pt == Run(args.p, t)
    IN /\ out.st = "ret" /\ pt.st = "ret"
       /\ Length(out.v) = 0 <=> Length(pt.v) = 0
       /\ Length(pt.v) # 0 =>
            /\ out.v = Success(PairV(pt.v), Str(StripLeading(PairOut(pt.v).v)))
            /\ PairOut(out.v).v = StripLeading(PairOut(out.v).v)

C13_Witness ==
  /\ Done("token")
  /\ args.p = numeric
  /\ inp = <<"\n", " ", "0", "\t", "a">>
  /\ out.v = Success(Str(<<"0">>), Str(<<"a">>))

\* C14: sat(pred)(inp) succeeds exactly when inp is non-empty and pred holds of its
\* first character, with that character as value and the rest of inp as remainder;
\* char(c) is sat with equality to c
C14_SatTestsFirstCharacter ==
  /\ Done("sat") =>
       /\ out.st = "ret"
       /\ Length(out.v) # 0 <=> (Len(inp) > 0 /\ Head(inp) \in args.pred)
       /\ Length(out.v) # 0 => out.v = Success(Str(<<Head(inp)>>), Str(Tail(inp)))
  /\ Done("char") =>
       /\ out = Run(sat({ c \in Chars : c = args.c }), inp)
       /\ (Len(inp) = 0 \/ Head(inp) # args.c) => out.v = Failure
       /\ (Len(inp) > 0 /\ Head(inp) = args.c) =>
            out.v = Success(Str(<<args.c>>), Str(Tail(inp)))

C14_Witness ==
  /\ Done("sat")
  /\ args.pred = {"a", "<"}
  /\ inp = <<"<", "a", "0">>
  /\ out.v = Success(Str(<<"<">>), Str(<<"a", "0">>))

\* C15: sentence(literal)(inp) succeeds exactly when inp is at least as long as the
\* literal and starts with it; the value is the literal and the remainder is inp
\* without those |literal| characters
C15_SentenceMatchesPrefix ==
  Done("sentence") =>
    LET k == Len(args.str)
        matches == Len(inp) >= k /\ \A i \in 1..k : inp[i] = args.str[i]
    IN /\ out.st = "ret"
       /\ Length(out.v) # 0 <=> matches
       /\ matches => out.v = Success(Str(args.str), Str([i \in 1..(Len(inp) - k) |-> inp[i + k]]))

C15_Witness ==
  /\ Done("sentence")
  /\ args.str = <<"<", "a">>
  /\ inp = <<"<", "a", "0">>
  /\ out.v = Success(Str(<<"<", "a">>), Str(<<"0">>))

\* C16: peek(inp) always succeeds and leaves inp as the remainder; its value is the
\* first character, the one take(inp) produces, or the empty string on empty input
C16_PeekConsumesNothing ==
  Done("peek") =>
    /\ Succeeded(out)
    /\ PairOut(out.v) = Str(inp)
    /\ Len(inp) > 0 =>
         /\ PairV(out.v) = Str(<<inp[1]>>)
         /\ PairV(out.v) = PairV(Run(take, inp).v)
    /\ Len(inp) = 0 => PairV(out.v) = Str(<<>>)

C16_Witness ==
  /\ Done("peek")
  /\ inp = <<>>
  /\ out.v = Success(Str(<<>>), Str(<<>>))

\* C17: take(inp) succeeds exactly when inp is non-empty, with the first character
\* as value and inp without it as remainder
C17_TakeConsumesOne ==
  Done("take") =>
    /\ out.st = "ret"
    /\ Length(out.v) # 0 <=> Len(inp) > 0
    /\ Len(inp) > 0 =>
         /\ out.v = Success(Str(<<inp[1]>>), Str(Tail(inp)))
         /\ Len(PairOut(out.v).v) = Len(inp) - 1

C17_Witness ==
  /\ Done("take")
  /\ inp = <<"\t", "a", "\n">>
  /\ out.v = Success(Str(<<"\t">>), Str(<<"a", "\n">>))

\* the operations that return what a parser returned
ParserOps ==
  { "parse", "bind", "alt", "alts", "node", "many", "some", "liftAs", "token",
    "sat", "char", "sentence", "peek", "take" }

\* the call returned a result, and every argument in a parser's place was a parser
ReturnedFromParsers ==
  /\ pc = "done"
  /\ op \in ParserOps
  /\ out.st = "ret"
  /\ ~(op = "alt" /\ args.first = "thunk")

\* C18: what a primitive or a combinator over parsers returns is a list of no or one
\* outcome, the outcome being a pair of a value and a remaining input
C18_AtMostOneOutcome ==
  ReturnedFromParsers =>
    /\ out.v.t = "arr"
    /\ Len(out.v.v) <= 1
    /\ Len(out.v.v) = 1 =>
         /\ out.v.v[1].t = "arr"
         /\ Len(out.v.v[1].v) = 2
         /\ PairOut(out.v).t = "str"

C18_Witness ==
  /\ Done("alt")
  /\ args.ver = "lazy" /\ args.first = "wrapped" /\ args.second = "thunk"
  /\ args.p = alpha /\ args.q = take
  /\ inp = <<"a", "a", "0">>
  /\ Succeeded(Run(args.q, inp))
  /\ out.v = Success(Str(<<"a">>), Str(<<"a", "0">>))

\* alt(p, q) and alt(p, () => q) for the first argument p given as a parser
SecondArgumentForms ==
  /\ Done("alt")
  /\ args.ver = "lazy" /\ args.first = "wrapped"
  /\ args.second \in {"bare", "thunk"}
  /\ Failed(Run(args.p, inp))

\* the same alt with its second argument in the other form
OtherForm(a) == AltOf([a EXCEPT !.second = IF @ = "bare" THEN "thunk" ELSE "bare"])

\* C19: for every parser q, the one returned by empty() included, and every input on
\* which p fails, alt(p, q) and alt(p, () => q) both have the outcome of q; force
\* returns an immediate parser as it is and a thunk's parser in place of the thunk
C19_ThunkAndImmediateInterchangeable ==
  SecondArgumentForms =>
    LET rq == Run(args.q, inp)
        other == Run(OtherForm(args), inp)
    IN /\ out.st = "ret" /\ out.v = rq.v
       /\ other.st = "ret" /\ other.v = rq.v
       /\ force(args.q, MaxDepth) = Ret(args.q)
       /\ force(thunk(2, args.q), MaxDepth).v = args.q

\* C19 for the parsers q that are closures with one parameter
C19_InterchangeableUnlessZeroParameterParser ==
  (SecondArgumentForms /\ Arity(args.q) # 0) =>
    LET rq == Run(args.q, inp)
        other == Run(OtherForm(args), inp)
    IN /\ out.st = "ret" /\ out.v = rq.v
       /\ other.st = "ret" /\ other.v = rq.v
       /\ force(args.q, MaxDepth) = Ret(args.q)
       /\ force(thunk(2, args.q), MaxDepth).v = args.q

\* C20: on every success of a parser built from the library's primitives and
\* combinators, the remainder is a suffix of the input the parser was applied to
C20_RemainderIsSuffix ==
  (ReturnedFromParsers /\ Succeeded(out)) =>
    PairOut(out.v) \in { Str(u) : u \in Suffixes(inp) }

C20_Witness ==
  /\ Done("parse")
  /\ args.p = takeTwo
  /\ inp = <<"<", "a", "0">>
  /\ Succeeded(out)
  /\ PairOut(out.v) = Str(<<"0">>)

====
